---- MODULE Spec2Model ----
(***************************************************************************)
(* TauZip, src-tauri/src/gui.rs: the launch aggregator (run_app,           *)
(* run_decom_app), the readiness watcher spawned by the dialog's setup     *)
(* hook, the compress and decompress commands with their progress          *)
(* snapshots, and the commands that list and validate compression kinds.   *)
(*                                                                         *)
(* Path strings are abstracted to integer tags: the k-th positional entry  *)
(* of an argv is the tag k, a baseline item is the tag 0.  A progress      *)
(* value is kept as the exact fraction num/den of the f64 expression the   *)
(* code evaluates (every f64 operation in it is correctly rounded, hence   *)
(* monotone, so order between two progress values is the order between     *)
(* the fractions).                                                         *)
(***************************************************************************)
EXTENDS Integers, Sequences, FiniteSets, TLC

\* ------------------------------------------------------------------ bounds
\* Redirected launches (single-instance callbacks) per session, besides the
\* launch made by setup.
MaxRedirect == 1
\* Positional entries of an argv beyond the two that run_app drops.
MaxExtra == 1
\* Sources of one decompress batch.
MaxBatch == 3
\* Progress callbacks the collaborator makes for one source.
MaxCallbacks == 2

Launches == 0..MaxRedirect
Redirected == 1..MaxRedirect
Intents == {"compress", "decompress"}
\* file_strings handed to run_compression_dialog / run_decompression_dialog
Baselines == {<<>>, <<0>>}
\* an argv of n positional entries
Argv(n) == [i \in 1..n |-> i]
Argvs == {Argv(n) : n \in 0..(2 + MaxExtra)}
\* values the UI passes to count_now
AckValues == {0, 1}
\* file stems of the sources of a decompress batch, all in one parent
\* directory; a name is the sequence of its parts, "a (2)" being <<"a", 2>>
Stems == {<<"a">>, <<"a", 2>>}
\* directories that something outside the program may create
ExternalDirs == {<<"a">>, <<"a", 2>>}
\* file_progress values the collaborator reports to its callback
FractionValues == {0, 50, 100}
\* a path: whether it is absolute, and its components
Path(abs, parts) == [abs |-> abs, parts |-> parts]
\* sources of a compress request: "/d/a", "a", "/"
SourcePaths == {Path(TRUE, <<"d", "a">>), Path(FALSE, <<"a">>), Path(TRUE, <<>>)}
\* outputfile of a compress request: "out", "/o/out"
OutputFiles == {Path(FALSE, <<"out">>), Path(TRUE, <<"o", "out">>)}
\* compressiontype strings of a request: the seven of the code, one of them
\* in lower case, and a foreign one
KindStrings == {"Zip", "TarGz", "TarBr", "Gz", "Br", "Gzip", "Bzip2", "zip", "Rar"}
\* what count_processes_by_name("TauZip.exe") answers
ProcessCounts == {0, 1, 2}

VARIABLES
    intent,        \* which dialog runs: run_compression_dialog / run_decompression_dialog
    file_strings,  \* the dialog's file_strings (baseline items of every launch)
    window_count,  \* GuiState.window_count (AtomicUsize)
    item_count,    \* GuiState.item_count (AtomicUsize): items delivered
    arg_received,  \* GuiState.arg_received (Mutex<usize>): items expected
    count_now,     \* GuiState.count_now (Mutex<usize>)
    setup_pc,      \* position of the setup hook: "start", "run_app", "done"
    launch,        \* per launch: pc of its handler/thread, file_strings2, c, and the
                   \* results of its set-mode and item-list emissions
    watcher,       \* the tokio task of setup: pc, itemc, total_arg
    enable_ok,     \* number of enable-ok events emitted
    launch_argv,   \* per launch: the argv its handler was called with, where
                   \* the step that handles it keeps it
    job,           \* decompress_files_command: pc and locals
    cjob,          \* compress_files_command: pc, arguments and locals
    reply,         \* the last reply of validate_compression_type /
                   \* get_compression_types, with the arguments it answers
    fs,            \* the directories that exist
    last_event,    \* the last compression-progress snapshot emitted
    n_events,      \* number of compression-progress snapshots emitted
    result         \* the result of the compress / decompress command: "none",
                   \* "ok", or the error ("err" for decompress, the message's
                   \* fixed part for compress)

launchVars == <<intent, file_strings, window_count, item_count, arg_received,
                count_now, setup_pc, launch, watcher, enable_ok, launch_argv>>

jobVars == <<job, cjob, reply, fs, last_event, n_events, result>>

vars == <<launchVars, jobVars>>

\* ------------------------------------------------------- run_app helpers
\* argv.into_iter().skip(n).collect()
Skip(s, n) == SubSeq(s, n + 1, Len(s))

\* one entry dropped instead of two
FileArgsSkipOne(argv) == Skip(argv, 1)

\* gui.rs 321: file_args = argv.skip(2)
FileArgs(argv) == Skip(argv, 2)

\* gui.rs 321-322: file_strings2.extend(file_args)
ItemList(base, argv) == base \o FileArgs(argv)

\* the total assigned instead of added to
ArgReceivedAssigned(old, c) == c

\* gui.rs 339: *arg_received.lock().unwrap() += c
ArgReceivedAfter(old, c) == old + c

\* fetch_add(0, ..), as in the reads of the counters
DeliveredNotAdded(old, c) == old

\* one per launch instead of one per item
DeliveredPerLaunch(old, c) == old + 1

\* the length added twice
DeliveredTwice(old, c) == old + c + c

\* gui.rs 356: item2.fetch_add(c, SeqCst)
DeliveredAfter(old, c) == old + c

\* the Err arm counting like the Ok arm
AfterEmitAlwaysCount(ok) == "count"

\* gui.rs 354-366 / 438-450: the arm taken on the emission's result: Ok goes
\* on to the fetch_add, Err ends the thread
AfterEmit(ok) == IF ok THEN "count" ELSE "done"

\* the decompress launch going straight to its item list
AfterWaitNoSetMode(mode) == "emit"

\* gui.rs 353-354 / 433-438: what the thread does once the window is there:
\* run_decom_app emits "set-mode" first, run_app emits its item list at once
AfterWait(mode) == IF mode = "decompress" THEN "setmode" ELSE "emit"

\* gui.rs 354 / 438: the name of the event that carries the item list
ItemsEvent(mode) ==
    IF mode = "compress" THEN "files-selected" ELSE "archives-selected"

\* a loop guard that never holds of an unsigned count
WindowReadyAlways(count) == count >= 0

\* gui.rs 344-348: the thread leaves its poll loop when count > 0
WindowReady(count) == count > 0

\* the test with >= for ==
ReadyCheckAtLeast(mode, total_arg, itemc) == total_arg >= itemc /\ itemc # 0

\* gui.rs 520 / 596: the watcher's test on its two local reads
ReadyCheck(mode, total_arg, itemc) ==
    IF mode = "compress"
    THEN total_arg = itemc /\ itemc # 0
    ELSE total_arg = itemc /\ total_arg # 0

\* ---------------------------------------------- decompress helpers
\* the 1-based index used for the 0-based one
PreStartProgressOneBased(index, total) == [num |-> (index + 1) * 100, den |-> total]

\* gui.rs 163: (index as f64 / total_files as f64) * 100.0
PreStartProgress(index, total) == [num |-> index * 100, den |-> total]

\* gui.rs 179: ((index as f64 + file_progress / 100.0) / total_files as f64) * 100.0
DetailedProgress(index, file_progress, total) ==
    [num |-> index * 100 + file_progress, den |-> total]

\* gui.rs 201: progress: 100.0
FinalProgress == [num |-> 100, den |-> 1]

\* p <= q for two progress values
Leq(p, q) == p.num * q.den <= q.num * p.den

\* gui.rs 621: parent.join(format!("{} ({})", base_name, counter))
Numbered(base_name, counter) == Append(base_name, counter)

\* gui.rs 616-624: the loop of generate_output_dir from a given counter and
\* candidate on
RECURSIVE OutputDirFrom(_, _, _, _)
OutputDirFrom(base_name, counter, output_dir, exists) ==
    IF output_dir \in exists
    THEN OutputDirFrom(base_name, counter + 1, Numbered(base_name, counter + 1), exists)
    ELSE output_dir

\* the counter started at 0
GenerateOutputDirFromZero(base_name, exists) ==
    OutputDirFrom(base_name, 0, base_name, exists)

\* gui.rs 612-625: generate_output_dir(file), file given by its stem
generate_output_dir(base_name, exists) ==
    OutputDirFrom(base_name, 1, base_name, exists)

\* ------------------------------------------------ compress helpers
\* the test with the bound off by one
MultipleInstancesOverTwo(count) == count > 2

\* gui.rs 73: count > 1
MultipleInstances(count) == count > 1

\* the match without its last arm
CompressionKindsShort == {"Zip", "TarGz", "TarBr", "Gz", "Br", "Gzip"}

\* gui.rs 78-87: the strings the match of compress_files_command accepts
CompressionKinds == {"Zip", "TarGz", "TarBr", "Gz", "Br", "Gzip", "Bzip2"}

\* gui.rs 221-229: the vector get_compression_types returns
get_compression_types == <<"Zip", "TarGz", "TarBr", "Gz", "Br", "Gzip", "Bzip2">>

\* gui.rs 234-243: the strings the match of validate_compression_type accepts
ValidationKinds == {"Zip", "TarGz", "TarBr", "Gz", "Br", "Gzip", "Bzip2"}

\* CompressionType::supports_multiple_files (compression.rs): the answers
\* it may give for a kind.  Gz takes a single file; nothing fixes the
\* answer for the other kinds, so both are allowed.
SupportsMultipleFiles(kind) == IF kind = "Gz" THEN {FALSE} ELSE BOOLEAN

\* the test on the count alone
ValidateIgnoringSupport(supports_multiple_files, len) == ~(len > 1)

\* gui.rs 246-249: Ok(false) when the kind does not support multiple files
\* and files.len() > 1, Ok(true) otherwise
Validate(supports_multiple_files, len) == ~(~supports_multiple_files /\ len > 1)

\* Path::parent: None for a path without components ("/" and "")
HasParent(p) == p.parts # <<>>
Parent(p) == Path(p.abs, SubSeq(p.parts, 1, Len(p.parts) - 1))

\* Path::new(".")
Dot == Path(FALSE, <<".">>)

\* Path::join: an absolute argument replaces the receiver
Join(p, q) == IF q.abs THEN q ELSE Path(p.abs, p.parts \o q.parts)

\* the output file joined onto the first file instead of its directory
OutputPathOntoFile(file_paths, outputfile) ==
    IF outputfile.abs
    THEN outputfile
    ELSE IF file_paths # <<>>
         THEN Join(file_paths[1], outputfile)
         ELSE outputfile

\* gui.rs 92-106: output_path
OutputPath(file_paths, outputfile) ==
    IF outputfile.abs
    THEN outputfile
    ELSE IF file_paths # <<>>
         THEN Join(IF HasParent(file_paths[1]) THEN Parent(file_paths[1]) ELSE Dot,
                   outputfile)
         ELSE outputfile

\* the empty path
NoPath == Path(FALSE, <<>>)

\* the arguments compress_files_with_progress was called with, if it was
NoCall == [invoked |-> FALSE, file_paths |-> <<>>, output_path |-> NoPath,
           compression |-> "none"]

IdleCompress == [pc |-> "idle", files |-> <<>>, outputfile |-> NoPath,
                 compressiontype |-> "none", count |-> 0,
                 output_path |-> NoPath, call |-> NoCall, ncb |-> 0,
                 success_msg |-> NoPath]

NoReply == [command |-> "none", files |-> <<>>, compressiontype |-> "none",
            supports_multiple_files |-> FALSE, ret |-> "none", list |-> <<>>]

IdleJob == [pc |-> "idle", files |-> <<>>, index |-> 0, total_files |-> 0,
            output_dir |-> <<>>, ncb |-> 0, last_fp |-> -1,
            decompressed_to |-> <<>>, calls |-> <<>>, failed |-> <<>>]

NoEvent == [progress |-> [num |-> 0, den |-> 1], current_file |-> <<>>,
            total_files |-> 0, current_file_index |-> 0, operation |-> "none"]

IdleLaunch == [pc |-> "idle", files |-> <<>>, c |-> 0, setmode |-> "none",
               emitted |-> "none", event |-> "none", payload |-> <<>>]

Init ==
    /\ intent \in Intents
    /\ file_strings \in Baselines
    /\ window_count = 0
    /\ item_count = 0
    /\ arg_received = 0
    /\ count_now = 0
    /\ setup_pc = "start"
    /\ launch = [l \in Launches |-> IdleLaunch]
    /\ watcher = [pc |-> "unspawned", itemc |-> 0, total_arg |-> 0,
                  polled |-> FALSE]
    /\ enable_ok = 0
    /\ launch_argv = [l \in Launches |-> <<>>]
    /\ job = IdleJob
    /\ cjob = IdleCompress
    /\ reply = NoReply
    /\ fs = {}
    /\ last_event = NoEvent
    /\ n_events = 0
    /\ result = "none"

\* ------------------------------------------------------------ the handler
\* run_app / run_decom_app up to thread::spawn: the item list is built, its
\* length is added to arg_received under the mutex, and the thread is
\* spawned holding file_strings2 and c (total_arg, read back at 340, is
\* never used).
RunApp(l, argv) ==
    LET file_strings2 == ItemList(file_strings, argv)
        c == Len(file_strings2)
    IN  /\ launch[l].pc = "idle"
        /\ arg_received' = ArgReceivedAfter(arg_received, c)
        /\ launch' = [launch EXCEPT ![l] =
                         [pc |-> "wait", files |-> file_strings2, c |-> c,
                          setmode |-> "none", emitted |-> "none",
                          event |-> "none", payload |-> <<>>]]

\* setup, gui.rs 497 / 573: window_count.fetch_add(1)
SetupWindow ==
    /\ setup_pc = "start"
    /\ window_count' = window_count + 1
    /\ setup_pc' = "run_app"
    /\ UNCHANGED <<launch_argv,
                   intent, file_strings, item_count, arg_received, count_now,
                   launch, watcher, enable_ok,
                   jobVars>>

\* setup, gui.rs 501-527 / 577-603: the launch of the first instance, then
\* tokio::spawn of the watcher
SetupLaunchOf(argv) ==
    /\ setup_pc = "run_app"
    /\ RunApp(0, argv)
    /\ watcher' = [watcher EXCEPT !.pc = "poll"]
    /\ setup_pc' = "done"
    /\ UNCHANGED <<intent, file_strings, window_count, item_count, count_now,
                   enable_ok,
                   jobVars>>

SetupLaunch ==
    \E argv \in Argvs : SetupLaunchOf(argv) /\ UNCHANGED launch_argv

\* the same step, its argv kept in launch_argv
SetupLaunchKeepArgv ==
    \E argv \in Argvs :
        /\ SetupLaunchOf(argv)
        /\ launch_argv' = [launch_argv EXCEPT ![0] = argv]

\* the single-instance callback, gui.rs 489-494 / 567-570; redirected
\* launches are numbered in the order they arrive
SingleInstanceOf(l, argv) ==
    /\ l \in Redirected
    /\ \A k \in Redirected : k < l => launch[k].pc # "idle"
    /\ RunApp(l, argv)
    /\ UNCHANGED <<intent, file_strings, window_count, item_count, count_now,
                   setup_pc, watcher, enable_ok,
                   jobVars>>

SingleInstance(l) ==
    \E argv \in Argvs : SingleInstanceOf(l, argv) /\ UNCHANGED launch_argv

\* the same step, its argv kept in launch_argv
SingleInstanceKeepArgv(l) ==
    \E argv \in Argvs :
        /\ SingleInstanceOf(l, argv)
        /\ launch_argv' = [launch_argv EXCEPT ![l] = argv]

\* ------------------------------------------------------ the launch thread
\* gui.rs 344-352 / 424-432: poll window_count until it is > 0 (then the
\* 500 ms pause when count <= 3, which touches no state)
ThreadWait(l) ==
    /\ launch[l].pc = "wait"
    /\ WindowReady(window_count)
    /\ launch' = [launch EXCEPT ![l].pc = AfterWait(intent)]
    /\ UNCHANGED <<launch_argv,
                   intent, file_strings, window_count, item_count, arg_received,
                   count_now, setup_pc, watcher, enable_ok,
                   jobVars>>

\* gui.rs 434-437: emit("set-mode", ..), its result only printed
ThreadSetMode(l) ==
    /\ launch[l].pc = "setmode"
    /\ \E ok \in BOOLEAN :
          launch' = [launch EXCEPT ![l].pc = "emit",
                                   ![l].setmode = IF ok THEN "ok" ELSE "err"]
    /\ UNCHANGED <<launch_argv,
                   intent, file_strings, window_count, item_count, arg_received,
                   count_now, setup_pc, watcher, enable_ok,
                   jobVars>>

\* gui.rs 354 / 438: emit("files-selected" | "archives-selected", file_strings2):
\* one event whose payload is the whole list
ThreadEmit(l) ==
    /\ launch[l].pc = "emit"
    /\ \E ok \in BOOLEAN :
          launch' = [launch EXCEPT ![l].pc = AfterEmit(ok),
                                   ![l].emitted = IF ok THEN "ok" ELSE "err",
                                   ![l].event = ItemsEvent(intent),
                                   ![l].payload = launch[l].files]
    /\ UNCHANGED <<launch_argv,
                   intent, file_strings, window_count, item_count, arg_received,
                   count_now, setup_pc, watcher, enable_ok,
                   jobVars>>

\* gui.rs 355-356 / 439-440: Ok(_) => item2.fetch_add(c)
ThreadCount(l) ==
    /\ launch[l].pc = "count"
    /\ item_count' = DeliveredAfter(item_count, launch[l].c)
    /\ launch' = [launch EXCEPT ![l].pc = "done"]
    /\ UNCHANGED <<launch_argv,
                   intent, file_strings, window_count, arg_received, count_now,
                   setup_pc, watcher, enable_ok,
                   jobVars>>

\* ------------------------------------------------------------ the watcher
\* gui.rs 511-518 / 587-594: c = count_now (unused); the future returned by
\* sleep is dropped without an .await, so the task goes on without
\* suspending; itemc = item_count.  polled records that the task has read
\* the counters and has not suspended since (the loop has no .await that
\* would clear it).
WatcherPoll ==
    /\ watcher.pc = "poll"
    /\ watcher' = [watcher EXCEPT !.pc = "read_total", !.itemc = item_count,
                                  !.polled = TRUE]
    /\ UNCHANGED <<launch_argv,
                   intent, file_strings, window_count, item_count, arg_received,
                   count_now, setup_pc, launch, enable_ok,
                   jobVars>>

\* gui.rs 519 / 595: total_arg = *arg_received.lock()
WatcherReadTotal ==
    /\ watcher.pc = "read_total"
    /\ watcher' = [watcher EXCEPT !.pc = "decide", !.total_arg = arg_received]
    /\ UNCHANGED <<launch_argv,
                   intent, file_strings, window_count, item_count, arg_received,
                   count_now, setup_pc, launch, enable_ok,
                   jobVars>>

\* the emission without the break
WatcherEmitNoBreak ==
    /\ watcher.pc = "decide"
    /\ ReadyCheck(intent, watcher.total_arg, watcher.itemc)
    /\ enable_ok' = enable_ok + 1
    /\ watcher' = [watcher EXCEPT !.pc = "poll", !.itemc = 0, !.total_arg = 0]
    /\ UNCHANGED <<launch_argv,
                   intent, file_strings, window_count, item_count, arg_received,
                   count_now, setup_pc, launch, jobVars>>

\* gui.rs 520-523 / 596-599: emit("enable-ok"); break
WatcherEmit ==
    /\ watcher.pc = "decide"
    /\ ReadyCheck(intent, watcher.total_arg, watcher.itemc)
    /\ enable_ok' = enable_ok + 1
    /\ watcher' = [watcher EXCEPT !.pc = "done"]
    /\ UNCHANGED <<launch_argv,
                   intent, file_strings, window_count, item_count, arg_received,
                   count_now, setup_pc, launch,
                   jobVars>>

\* gui.rs 510, 524: the test fails, next iteration
WatcherLoop ==
    /\ watcher.pc = "decide"
    /\ ~ReadyCheck(intent, watcher.total_arg, watcher.itemc)
    /\ watcher' = [watcher EXCEPT !.pc = "poll", !.itemc = 0, !.total_arg = 0]
    /\ UNCHANGED <<launch_argv,
                   intent, file_strings, window_count, item_count, arg_received,
                   count_now, setup_pc, launch, enable_ok,
                   jobVars>>

\* gui.rs 54-58: the count_now command
CountNow ==
    /\ \E count \in AckValues : count_now' = count
    /\ UNCHANGED <<launch_argv,
                   intent, file_strings, window_count, item_count, arg_received,
                   setup_pc, launch, watcher, enable_ok,
                   jobVars>>

\* ------------------------------------------- decompress_files_command
\* window.emit("compression-progress", ..)
EmitProgress(snapshot) ==
    /\ last_event' = snapshot
    /\ n_events' = n_events + 1

\* gui.rs 146-155: the command is invoked (it is registered by
\* run_decompression_dialog only)
DecompressStart ==
    /\ intent = "decompress"
    /\ job.pc = "idle"
    /\ \E n \in 0..MaxBatch : \E files \in [1..n -> Stems] :
          job' = [IdleJob EXCEPT !.pc = IF n = 0 THEN "final" ELSE "begin",
                                 !.files = files, !.total_files = n]
    /\ UNCHANGED <<launchVars, cjob, reply, fs, last_event, n_events, result>>

\* the directory taken from the stem without a look at what exists
FileBeginNoProbe ==
    /\ job.pc = "begin"
    /\ LET file_path == job.files[job.index + 1] IN
          /\ job' = [job EXCEPT !.pc = "extracting", !.ncb = 0, !.last_fp = -1,
                                !.output_dir = file_path,
                                !.calls = Append(@, job.index)]
          /\ EmitProgress([progress |-> PreStartProgress(job.index, job.total_files),
                           current_file |-> file_path,
                           total_files |-> job.total_files,
                           current_file_index |-> job.index + 1,
                           operation |-> "extracting"])
    /\ UNCHANGED <<launchVars, cjob, reply, fs, result>>

\* gui.rs 157-180: output_dir is resolved, the pre-start snapshot emitted and
\* decompress_file_with_progress called for files[index] (calls keeps the
\* indices it has been called for, in order)
FileBegin ==
    /\ job.pc = "begin"
    /\ LET file_path == job.files[job.index + 1] IN
          /\ job' = [job EXCEPT !.pc = "extracting", !.ncb = 0, !.last_fp = -1,
                                !.output_dir = generate_output_dir(file_path, fs),
                                !.calls = Append(@, job.index)]
          /\ EmitProgress([progress |-> PreStartProgress(job.index, job.total_files),
                           current_file |-> file_path,
                           total_files |-> job.total_files,
                           current_file_index |-> job.index + 1,
                           operation |-> "extracting"])
    /\ UNCHANGED <<launchVars, cjob, reply, fs, result>>

\* gui.rs 176-186: the collaborator calls back with (file_progress, name)
Callback ==
    /\ job.pc = "extracting"
    /\ job.ncb < MaxCallbacks
    /\ \E file_progress \in FractionValues :
          /\ job' = [job EXCEPT !.ncb = @ + 1, !.last_fp = file_progress]
          /\ EmitProgress([progress |-> DetailedProgress(job.index, file_progress,
                                                         job.total_files),
                           current_file |-> <<"entry">>,
                           total_files |-> job.total_files,
                           current_file_index |-> job.index + 1,
                           operation |-> "extracting"])
    /\ UNCHANGED <<launchVars, cjob, reply, fs, result>>

\* gui.rs 187-190: the collaborator returns Ok, having created output_dir
FileOk ==
    /\ job.pc = "extracting"
    /\ fs' = fs \cup {job.output_dir}
    /\ job' = [job EXCEPT !.decompressed_to = Append(@, job.output_dir),
                          !.index = @ + 1,
                          !.pc = IF job.index + 1 < job.total_files
                                 THEN "begin" ELSE "final"]
    /\ UNCHANGED <<launchVars, cjob, reply, last_event, n_events, result>>

\* the loop going on to the next file after an error
FileErrContinue ==
    /\ job.pc = "extracting"
    /\ \E created \in BOOLEAN :
          fs' = IF created THEN fs \cup {job.output_dir} ELSE fs
    /\ job' = [job EXCEPT !.failed = <<job.index>>,
                          !.index = @ + 1,
                          !.pc = IF job.index + 1 < job.total_files
                                 THEN "begin" ELSE "done"]
    /\ result' = "err"
    /\ UNCHANGED <<launchVars, cjob, reply, last_event, n_events>>

\* gui.rs 191-195: the collaborator returns Err; the command returns Err with
\* the message that names files[index] (failed keeps that index)
FileErr ==
    /\ job.pc = "extracting"
    /\ \E created \in BOOLEAN :
          fs' = IF created THEN fs \cup {job.output_dir} ELSE fs
    /\ job' = [job EXCEPT !.pc = "done", !.failed = <<job.index>>]
    /\ result' = "err"
    /\ UNCHANGED <<launchVars, cjob, reply, last_event, n_events>>

\* gui.rs 199-216: the final snapshot and Ok
Finish ==
    /\ job.pc = "final"
    /\ EmitProgress([progress |-> FinalProgress,
                     current_file |-> <<"Complete">>,
                     total_files |-> job.total_files,
                     current_file_index |-> job.total_files,
                     operation |-> "extracting"])
    /\ job' = [job EXCEPT !.pc = "done"]
    /\ result' = "ok"
    /\ UNCHANGED <<launchVars, cjob, reply, fs>>

\* ---------------------------------------------- compress_files_command
\* gui.rs 61-112: the command is invoked (it is registered by
\* run_compression_dialog only): the instance count is tested first, then
\* the kind is parsed, then output_path is resolved and
\* compress_files_with_progress is called
CompressStart ==
    /\ intent = "compress"
    /\ cjob.pc = "idle"
    /\ \E n \in 0..MaxBatch : \E files \in [1..n -> SourcePaths] :
       \E outputfile \in OutputFiles : \E compressiontype \in KindStrings :
       \E count \in ProcessCounts :
          LET args == [IdleCompress EXCEPT !.files = files,
                                           !.outputfile = outputfile,
                                           !.compressiontype = compressiontype,
                                           !.count = count]
              output_path == OutputPath(files, outputfile)
          IN  IF MultipleInstances(count)
              THEN /\ cjob' = [args EXCEPT !.pc = "done"]
                   /\ result' = "multiple instance of apps detected"
              ELSE IF compressiontype \notin CompressionKinds
              THEN /\ cjob' = [args EXCEPT !.pc = "done"]
                   /\ result' = "Unsupported compression type"
              ELSE /\ cjob' = [args EXCEPT
                                  !.pc = "compressing",
                                  !.output_path = output_path,
                                  !.call = [invoked |-> TRUE,
                                            file_paths |-> files,
                                            output_path |-> output_path,
                                            compression |-> compressiontype]]
                   /\ result' = result
    /\ UNCHANGED <<launchVars, job, reply, fs, last_event, n_events>>

\* gui.rs 113-121: the collaborator calls back with (progress, name)
CompressCallback ==
    /\ cjob.pc = "compressing"
    /\ cjob.ncb < MaxCallbacks
    /\ \E progress \in FractionValues :
          /\ cjob' = [cjob EXCEPT !.ncb = @ + 1]
          /\ EmitProgress([progress |-> [num |-> progress, den |-> 1],
                           current_file |-> <<"entry">>,
                           total_files |-> Len(cjob.files),
                           current_file_index |-> 1,
                           operation |-> "compressing"])
    /\ UNCHANGED <<launchVars, job, reply, fs, result>>

\* the final snapshot emitted before the collaborator's error is returned
CompressErrAfterFinal ==
    /\ cjob.pc = "compressing"
    /\ EmitProgress([progress |-> FinalProgress,
                     current_file |-> <<"Complete">>,
                     total_files |-> 1,
                     current_file_index |-> 1,
                     operation |-> "compressing"])
    /\ cjob' = [cjob EXCEPT !.pc = "done"]
    /\ result' = "Compression failed"
    /\ UNCHANGED <<launchVars, job, reply, fs>>

\* gui.rs 122-128: the collaborator returns Err; the command returns Err
CompressErr ==
    /\ cjob.pc = "compressing"
    /\ cjob' = [cjob EXCEPT !.pc = "done"]
    /\ result' = "Compression failed"
    /\ UNCHANGED <<launchVars, job, reply, fs, last_event, n_events>>

\* gui.rs 130-142: the collaborator returns Ok; the final snapshot, then Ok
\* with the message that names output_path
CompressOk ==
    /\ cjob.pc = "compressing"
    /\ EmitProgress([progress |-> FinalProgress,
                     current_file |-> <<"Complete">>,
                     total_files |-> 1,
                     current_file_index |-> 1,
                     operation |-> "compressing"])
    /\ cjob' = [cjob EXCEPT !.pc = "done", !.success_msg = cjob.output_path]
    /\ result' = "ok"
    /\ UNCHANGED <<launchVars, job, reply, fs>>

\* a directory is created from outside the program
ExternalMkdir ==
    /\ \E d \in ExternalDirs \ fs : fs' = fs \cup {d}
    /\ UNCHANGED <<launchVars, cjob, reply, job, last_event, n_events, result>>

JobNext ==
    \/ DecompressStart
    \/ FileBegin
    \/ Callback
    \/ FileOk
    \/ FileErr
    \/ Finish
    \/ ExternalMkdir

JobSpec == Init /\ [][JobNext]_vars

CompressNext ==
    \/ CompressStart
    \/ CompressCallback
    \/ CompressErr
    \/ CompressOk

CompressSpec == Init /\ [][CompressNext]_vars

\* the two archive commands
ArchiveNext ==
    \/ JobNext
    \/ CompressNext

ArchiveSpec == Init /\ [][ArchiveNext]_vars

\* ------------------------------------------- the commands without state
\* gui.rs 232-250: validate_compression_type(files, compressiontype)
ValidateCompressionType ==
    /\ intent = "compress"
    /\ \E n \in 0..MaxBatch : \E files \in [1..n -> SourcePaths] :
       \E compressiontype \in KindStrings :
          IF compressiontype \notin ValidationKinds
          THEN reply' = [NoReply EXCEPT !.command = "validate_compression_type",
                                        !.files = files,
                                        !.compressiontype = compressiontype,
                                        !.ret = "Unsupported compression type"]
          ELSE \E supports \in SupportsMultipleFiles(compressiontype) :
                  reply' = [NoReply EXCEPT
                               !.command = "validate_compression_type",
                               !.files = files,
                               !.compressiontype = compressiontype,
                               !.supports_multiple_files = supports,
                               !.ret = IF Validate(supports, Len(files))
                                       THEN "true" ELSE "false"]
    /\ UNCHANGED <<launchVars, job, cjob, fs, last_event, n_events, result>>

\* gui.rs 219-230: get_compression_types()
GetCompressionTypes ==
    /\ intent = "compress"
    /\ reply' = [NoReply EXCEPT !.command = "get_compression_types",
                                !.list = get_compression_types]
    /\ UNCHANGED <<launchVars, job, cjob, fs, last_event, n_events, result>>

CommandNext ==
    \/ ValidateCompressionType
    \/ GetCompressionTypes

CommandSpec == Init /\ [][CommandNext]_vars

\* the handler and thread of every launch, each handler's argv kept
LaunchNext ==
    \/ SetupWindow
    \/ SetupLaunchKeepArgv
    \/ \E l \in Launches : SingleInstanceKeepArgv(l)
    \/ \E l \in Launches : ThreadWait(l)
    \/ \E l \in Launches : ThreadSetMode(l)
    \/ \E l \in Launches : ThreadEmit(l)
    \/ \E l \in Launches : ThreadCount(l)

LaunchSpec == Init /\ [][LaunchNext]_vars

Next ==
    \/ SetupWindow
    \/ SetupLaunch
    \/ \E l \in Launches : SingleInstance(l)
    \/ \E l \in Launches : ThreadWait(l)
    \/ \E l \in Launches : ThreadSetMode(l)
    \/ \E l \in Launches : ThreadEmit(l)
    \/ \E l \in Launches : ThreadCount(l)
    \/ WatcherPoll
    \/ WatcherReadTotal
    \/ WatcherEmit
    \/ WatcherLoop
    \/ CountNow

Spec == Init /\ [][Next]_vars

\* one step of the setup hook
SetupStep == SetupWindow \/ SetupLaunch

\* one step of the thread of launch l
ThreadStep(l) == ThreadWait(l) \/ ThreadSetMode(l) \/ ThreadEmit(l) \/ ThreadCount(l)

\* one step of the watcher task
WatcherStep == WatcherPoll \/ WatcherReadTotal \/ WatcherEmit \/ WatcherLoop

\* The setup hook, every launch thread and the watcher task keep running:
\* each is straight-line code or a loop on a thread of its own.  Launches
\* and count_now calls come from outside and need not happen.
Fairness ==
    /\ WF_vars(SetupStep)
    /\ \A l \in Launches : WF_vars(ThreadStep(l))
    /\ WF_vars(WatcherStep)

LiveSpec == Spec /\ Fairness

\* The launches alone, without the watcher and the count_now command, the
\* setup hook and every launch thread running on as above.
LiveLaunchNext ==
    \/ SetupWindow
    \/ SetupLaunch
    \/ \E l \in Launches : SingleInstance(l)
    \/ \E l \in Launches : ThreadWait(l)
    \/ \E l \in Launches : ThreadSetMode(l)
    \/ \E l \in Launches : ThreadEmit(l)
    \/ \E l \in Launches : ThreadCount(l)

LaunchFairness ==
    /\ WF_vars(SetupStep)
    /\ \A l \in Launches : WF_vars(ThreadStep(l))

LiveLaunchSpec == Init /\ [][LiveLaunchNext]_vars /\ LaunchFairness
\* ================================================================ claims
\* launches whose handler has run
Announced == {l \in Launches : launch[l].pc # "idle"}
\* launches whose item-list event was emitted successfully
Emitted == {l \in Launches : launch[l].emitted = "ok"}
\* launches whose thread has added to item_count
Counted == {l \in Launches : launch[l].emitted = "ok" /\ launch[l].pc = "done"}

RECURSIVE SumLen(_)
SumLen(S) ==
    IF S = {} THEN 0
    ELSE LET l == CHOOSE x \in S : TRUE
         IN  Len(launch[l].files) + SumLen(S \ {l})

\* items_expected_total == items_delivered, both non-zero
Ready == arg_received = item_count /\ item_count # 0

\* C1: arg_received is the sum of the item-list lengths of the launches
\* handled so far, under every interleaving.
C1_ExpectedIsSum == arg_received = SumLen(Announced)

C1_Witness ==
    /\ Announced = Launches
    /\ \A l \in Launches : Len(launch[l].files) > 0
    /\ \E l \in Launches : launch[l].pc = "wait"
    /\ \E l \in Launches : launch[l].pc = "done"

\* C2: enable-ok is emitted at most once; once the watcher has ended it
\* stays ended and nothing emits again.
C2_AtMostOnce ==
    /\ [](enable_ok <= 1)
    /\ [][watcher.pc = "done" => watcher'.pc = "done" /\ enable_ok' = enable_ok]_vars

\* the counters converge again on a launch that arrived after the emission
C2_Witness ==
    /\ enable_ok = 1
    /\ watcher.pc = "done"
    /\ arg_received > watcher.total_arg
    /\ Ready

\* C3: enable-ok is emitted only on a poll whose two reads passed the test,
\* and at the read of arg_received that completes such a poll the shared
\* counters themselves are equal and non-zero.
C3_ReadyAtPoll ==
    [][ /\ (enable_ok' # enable_ok =>
               /\ watcher.pc = "decide"
               /\ watcher.total_arg = watcher.itemc
               /\ watcher.itemc # 0)
        /\ (( /\ watcher.pc = "read_total"
              /\ watcher'.pc = "decide"
              /\ watcher'.total_arg = watcher'.itemc
              /\ watcher'.itemc # 0)
            => Ready) ]_vars

\* emitted, and a launch was delivered between the watcher's two reads or
\* after them
C3_Witness ==
    /\ enable_ok = 1
    /\ watcher.itemc # 0
    /\ item_count > watcher.itemc

\* C4 (as claimed): when enable-ok is emitted, every announced launch with a
\* non-empty item list has had its item-list event emitted successfully.
C4_AllDeliveredAtEmit ==
    [][enable_ok' # enable_ok =>
          \A l \in Announced : launch[l].c > 0 => l \in Emitted]_vars

\* C5 (as claimed): once Ready holds it holds in every later state.
C5_ReadyStable == [][Ready => Ready']_vars

\* C5 (amended): once Ready holds, it holds after every step except the
\* handling of a further launch with a non-empty item list.
C5_ReadyStableUntilLaunch ==
    [][Ready =>
          \/ Ready'
          \/ \E l \in Launches :
                /\ launch[l].pc = "idle"
                /\ launch'[l].pc = "wait"
                /\ launch'[l].c > 0]_vars

\* Ready held through the delivery of an empty launch
C5_Witness ==
    /\ Ready
    /\ \E l \in Counted : launch[l].c = 0
    /\ \E l \in Counted : launch[l].c > 0

\* C6: per launch the steps come in the order: add to arg_received, see
\* window_count > 0, emit, add to item_count; no item-list event is emitted
\* while window_count = 0, and item_count grows only by a launch whose
\* event has been emitted.
C6_LaunchOrder ==
    [][\A l \in Launches :
          /\ (launch'[l].pc # launch[l].pc =>
                 \/ /\ launch[l].pc = "idle" /\ launch'[l].pc = "wait"
                    /\ arg_received' = arg_received + launch'[l].c
                 \/ /\ launch[l].pc = "wait" /\ launch'[l].pc \in {"setmode", "emit"}
                    /\ window_count > 0
                 \/ launch[l].pc = "setmode" /\ launch'[l].pc = "emit"
                 \/ /\ launch[l].pc = "emit" /\ launch'[l].pc \in {"count", "done"}
                    /\ launch'[l].emitted # "none"
                    /\ window_count > 0
                 \/ /\ launch[l].pc = "count" /\ launch'[l].pc = "done"
                    /\ launch[l].emitted = "ok"
                    /\ item_count' = item_count + launch[l].c)
          /\ (launch'[l].emitted # launch[l].emitted => window_count > 0)
          /\ (item_count' # item_count =>
                 \E k \in Emitted : launch[k].pc = "count" /\ launch'[k].pc = "done")]_vars

\* a launch handled before the window exists, and one already delivered
C6_Witness ==
    /\ \E l \in Launches : launch[l].pc = "done" /\ launch[l].emitted = "ok"
                           /\ launch[l].c > 0
    /\ \E l \in Launches : launch[l].pc \in {"wait", "emit"}

\* C7: item_count never decreases, is the sum of the list lengths of the
\* launches whose emission succeeded and whose increment has run, and a
\* failed emission changes no counter and is not retried.
C7_DeliveredIsSum ==
    /\ [](item_count = SumLen(Counted))
    /\ [][ /\ item_count' >= item_count
           /\ \A l \in Launches :
                 /\ (launch[l].pc = "emit" /\ launch'[l].emitted = "err" =>
                        /\ launch'[l].pc = "done"
                        /\ UNCHANGED <<item_count, arg_received, window_count,
                                       count_now>>)
                 /\ (launch[l].emitted = "err" =>
                        /\ launch'[l] = launch[l]
                        /\ (item_count' # item_count =>
                               \E k \in Launches \ {l} : launch'[k] # launch[k])) ]_vars

\* one launch failed, another was delivered
C7_Witness ==
    /\ \E l \in Launches : launch[l].emitted = "err" /\ launch[l].c > 0
    /\ \E l \in Counted : launch[l].c > 0
    /\ item_count < arg_received
\* some item-list emission has failed
SomeEmitFailed == \E l \in Launches : launch[l].emitted = "err"
\* the item-list emission of a launch with a non-empty list has failed
NonEmptyFailed == \E l \in Launches : launch[l].emitted = "err" /\ launch[l].c > 0

\* C8: with the window created and a launch with a non-empty item list
\* announced, enable-ok is eventually emitted and the watcher ends, unless
\* an item-list emission fails; and no launch thread waits for the window
\* forever.
C8_EventuallyReady ==
    /\ (window_count > 0 /\ \E l \in Announced : launch[l].c > 0)
          ~> ((enable_ok = 1 /\ watcher.pc = "done") \/ SomeEmitFailed)
    /\ \A l \in Launches :
          (window_count > 0 /\ launch[l].pc = "wait") ~> (launch[l].pc # "wait")

\* every launch arrived and was delivered, and the signal was sent
C8_Witness ==
    /\ Announced = Launches
    /\ \A l \in Launches : launch[l].pc = "done" /\ launch[l].emitted = "ok"
    /\ \E l \in Launches : launch[l].c > 0
    /\ enable_ok = 1
    /\ watcher.pc = "done"

\* C9 (as claimed): after the item-list emission of a launch with a
\* non-empty list has failed, item_count stays below arg_received, enable-ok
\* is not emitted and the watcher does not end.
C9_NeverReadyAfterFailure ==
    [][NonEmptyFailed =>
          /\ item_count' < arg_received'
          /\ enable_ok' = enable_ok
          /\ (watcher'.pc = "done" => watcher.pc = "done")]_vars

\* the slice of the file a snapshot names: [index/total*100, (index+1)/total*100]
InSlice(e) ==
    LET index == e.current_file_index - 1 IN
        /\ Leq([num |-> index * 100, den |-> e.total_files], e.progress)
        /\ Leq(e.progress, [num |-> (index + 1) * 100, den |-> e.total_files])

\* a callback step whose file_progress is below that of the previous
\* callback for the same file
DecreasingCallback ==
    /\ job.pc = "extracting"
    /\ job'.pc = "extracting"
    /\ job'.ncb = job.ncb + 1
    /\ job'.last_fp < job.last_fp

\* C10: every snapshot of a decompress batch is at least the previous one,
\* unless the collaborator's file_progress went down within a file, and the
\* snapshots of a file lie in that file's slice.
C10_ProgressMonotone ==
    /\ [](last_event.operation = "extracting"
             /\ last_event.current_file # <<"Complete">> => InSlice(last_event))
    /\ [][n_events' # n_events /\ ~DecreasingCallback =>
             Leq(last_event.progress, last_event'.progress)]_vars

\* total = 3, second file at file_progress = 50: progress 150/3 = 50
C10_Witness ==
    /\ job.total_files = 3
    /\ job.index = 1
    /\ job.last_fp = 50
    /\ last_event.progress = [num |-> 150, den |-> 3]
    /\ n_events = 4

\* the indices 0 .. n-1 in order
Indices(n) == [i \in 1..n |-> i - 1]

\* C11: decompress stops at the first source the collaborator fails on: the
\* error names that source, the collaborator has been called once for each
\* source up to it, in list order, and for none after it; the sources before
\* it have each produced one directory; and once the error is returned no
\* directory is resolved, no snapshot emitted and no call made any more.
C11_FailFast ==
    /\ [](job.calls = Indices(Len(job.calls)))
    /\ [](result = "err" =>
             /\ job.pc = "done"
             /\ job.calls # <<>>
             /\ job.failed = <<job.calls[Len(job.calls)]>>
             /\ Len(job.decompressed_to) = Len(job.calls) - 1
             /\ last_event.current_file_index = Len(job.calls))
    /\ [][result = "err" => UNCHANGED <<job, last_event, n_events, result>>]_vars

\* the second of three sources fails, after a callback
C11_Witness ==
    /\ result = "err"
    /\ job.total_files = 3
    /\ job.failed = <<1>>
    /\ job.calls = <<0, 1>>
    /\ n_events = 3

\* the step of decompress that resolves the output directory of a source
ResolveStep == job.pc = "begin" /\ job'.pc = "extracting"

\* C12: the directory generate_output_dir returns does not exist; it is the
\* source's stem in the source's parent when that does not exist, and
\* otherwise "stem (k)" for the smallest k >= 2 that does not exist; the
\* call leaves the filesystem as it is.
C12_FreshOutputDir ==
    [][ResolveStep =>
          LET stem == job.files[job.index + 1]
              dir == job'.output_dir
          IN  /\ dir \notin fs
              /\ fs' = fs
              /\ stem \notin fs => dir = stem
              /\ stem \in fs =>
                    \E k \in 2..(Cardinality(fs) + 2) :
                        /\ dir = stem \o <<k>>
                        /\ \A j \in 2..(k - 1) : (stem \o <<j>>) \in fs]_vars

\* "a" and "a (2)" exist: the directory for "a" is "a (3)"
C12_Witness ==
    /\ job.pc = "extracting"
    /\ job.files[job.index + 1] = <<"a">>
    /\ {<<"a">>, <<"a", 2>>} \subseteq fs
    /\ job.output_dir = <<"a", 3>>

\* the step that hands a request to compress_files_command
RequestStep == cjob.pc = "idle" /\ cjob'.pc # "idle"

\* C13: a compress request made while more than one instance is counted
\* returns "multiple instance of apps detected" and does nothing else,
\* whatever its kind string and its sources: the collaborator is not called,
\* no snapshot is emitted, no shared counter changes.
C13_MultipleInstancesRejected ==
    /\ [](cjob.pc # "idle" /\ cjob.count > 1 =>
             /\ cjob.pc = "done"
             /\ result = "multiple instance of apps detected"
             /\ ~cjob.call.invoked
             /\ n_events = 0)
    /\ [][RequestStep /\ cjob'.count > 1 =>
             UNCHANGED <<window_count, item_count, arg_received, count_now,
                         fs, last_event, n_events>>]_vars

\* two instances counted, a kind that does not exist, two sources
C13_Witness ==
    /\ cjob.count = 2
    /\ cjob.compressiontype = "Rar"
    /\ Len(cjob.files) = 2
    /\ result = "multiple instance of apps detected"

\* the kinds get_compression_types lists
ListedKinds == {get_compression_types[i] : i \in DOMAIN get_compression_types}

\* C14 as stated: a compress request with a kind string outside the seven
\* kinds fails with "Unsupported compression type", without a call of the
\* collaborator and without a snapshot; with a kind inside the set, which is
\* the set get_compression_types lists, it never fails with that error.
C14_UnsupportedKindRejected ==
    /\ ListedKinds = {"Zip", "TarGz", "TarBr", "Gz", "Br", "Gzip", "Bzip2"}
    /\ cjob.pc # "idle" /\ cjob.compressiontype \notin ListedKinds =>
          /\ result = "Unsupported compression type"
          /\ ~cjob.call.invoked
          /\ n_events = 0
    /\ cjob.compressiontype \in ListedKinds =>
          result # "Unsupported compression type"

\* C14: a compress request with a kind string outside the seven kinds fails
\* without a call of the collaborator and without a snapshot, with
\* "Unsupported compression type" unless more than one instance is counted,
\* which is tested first and gives "multiple instance of apps detected";
\* with a kind inside the set, which is the set get_compression_types lists,
\* it never fails with "Unsupported compression type".
C14_UnsupportedKindUnlessMultiple ==
    /\ ListedKinds = {"Zip", "TarGz", "TarBr", "Gz", "Br", "Gzip", "Bzip2"}
    /\ cjob.pc # "idle" /\ cjob.compressiontype \notin ListedKinds =>
          /\ result = IF cjob.count > 1
                      THEN "multiple instance of apps detected"
                      ELSE "Unsupported compression type"
          /\ ~cjob.call.invoked
          /\ n_events = 0
    /\ cjob.compressiontype \in ListedKinds =>
          result # "Unsupported compression type"

\* one instance, the kind "zip" in lower case
C14_Witness ==
    /\ cjob.count = 1
    /\ cjob.compressiontype = "zip"
    /\ cjob.pc = "done"
    /\ result = "Unsupported compression type"

\* C15: validate_compression_type answers an unknown kind string with an
\* error; for a known kind it answers false exactly when the kind does not
\* support multiple files and more than one file is given, and true in every
\* other case.
C15_ValidateKind ==
    reply.command = "validate_compression_type" =>
        IF reply.compressiontype \in
               {"Zip", "TarGz", "TarBr", "Gz", "Br", "Gzip", "Bzip2"}
        THEN /\ reply.ret \in {"true", "false"}
             /\ reply.ret = "false" <=>
                   (~reply.supports_multiple_files /\ Len(reply.files) > 1)
        ELSE reply.ret = "Unsupported compression type"

\* two files and "Gz": false
C15_Witness ==
    /\ reply.command = "validate_compression_type"
    /\ reply.compressiontype = "Gz"
    /\ Len(reply.files) = 2
    /\ ~reply.supports_multiple_files
    /\ reply.ret = "false"

\* the directory of the first source: its parent, "." when it has none
FirstFileDir(files) ==
    IF files[1].parts = <<>>
    THEN Path(FALSE, <<".">>)
    ELSE Path(files[1].abs, SubSeq(files[1].parts, 1, Len(files[1].parts) - 1))

\* C16: the output path of compress is the destination as given when that
\* is absolute, and otherwise the destination appended to the directory of
\* the first source, whatever the other sources are; the collaborator is
\* called with that path and the success message names it.
C16_OutputPath ==
    cjob.call.invoked /\ cjob.files # <<>> =>
        /\ cjob.outputfile.abs => cjob.output_path = cjob.outputfile
        /\ ~cjob.outputfile.abs =>
              cjob.output_path =
                  Path(FirstFileDir(cjob.files).abs,
                       FirstFileDir(cjob.files).parts \o cjob.outputfile.parts)
        /\ cjob.call.output_path = cjob.output_path
        /\ cjob.call.file_paths = cjob.files
        /\ result = "ok" => cjob.success_msg = cjob.output_path

\* "out" with the sources "/d/a" and "a": "/d/out", named in the message
C16_Witness ==
    /\ result = "ok"
    /\ cjob.files = <<Path(TRUE, <<"d", "a">>), Path(FALSE, <<"a">>)>>
    /\ cjob.outputfile = Path(FALSE, <<"out">>)
    /\ cjob.call.output_path = Path(TRUE, <<"d", "out">>)
    /\ cjob.success_msg = Path(TRUE, <<"d", "out">>)

\* the step that handles launch l
HandledStep(l) == launch[l].pc = "idle" /\ launch'[l].pc # "idle"

\* the step in which the thread of launch l emits its item list
EmitStep(l) == launch[l].emitted = "none" /\ launch'[l].emitted # "none"

\* C17: for every launch, that of setup and every redirected one, the item
\* list is the dialog's baseline items followed by the launch's argv without
\* its first two entries, in order; it is emitted whole, as one event and
\* once; what the launch adds to arg_received, and to item_count when the
\* emission succeeds, is the length of that list.
C17_ItemList ==
    /\ [](\A l \in Launches : launch[l].pc # "idle" =>
             /\ launch[l].files =
                   file_strings \o [i \in 1..(IF Len(launch_argv[l]) > 2
                                              THEN Len(launch_argv[l]) - 2
                                              ELSE 0) |-> launch_argv[l][i + 2]]
             /\ launch[l].emitted # "none" => launch[l].payload = launch[l].files)
    /\ [][\A l \in Launches :
             /\ HandledStep(l) =>
                   arg_received' = arg_received + Len(launch'[l].files)
             /\ launch[l].pc # "idle" =>
                   /\ launch'[l].files = launch[l].files
                   /\ launch_argv'[l] = launch_argv[l]
             /\ launch[l].emitted # "none" =>
                   /\ launch'[l].emitted = launch[l].emitted
                   /\ launch'[l].payload = launch[l].payload
             /\ launch[l].pc = "count" /\ launch'[l].pc = "done" =>
                   item_count' = item_count + Len(launch[l].payload)]_vars

\* a redirected launch with a baseline item and an argv of three entries has
\* delivered the two items <<0, 3>> and counted them
C17_Witness ==
    \E l \in Redirected :
        /\ file_strings = <<0>>
        /\ launch_argv[l] = <<1, 2, 3>>
        /\ launch[l].payload = <<0, 3>>
        /\ launch[l].pc = "done"
        /\ launch[l].emitted = "ok"
        /\ item_count >= 2

\* C18: the thread of a decompress launch emits "set-mode" before its item
\* list, which goes out as "archives-selected"; when the emission of
\* "set-mode" fails the item list is emitted all the same, and counted when
\* its own emission succeeds.  The thread of a compress launch emits
\* "files-selected" and never "set-mode".
C18_SetModeFirst ==
    /\ [](\A l \in Launches :
             /\ launch[l].emitted # "none" =>
                   launch[l].event = IF intent = "decompress"
                                     THEN "archives-selected"
                                     ELSE "files-selected"
             /\ intent = "decompress" /\ launch[l].emitted # "none" =>
                   launch[l].setmode # "none"
             /\ intent = "compress" => launch[l].setmode = "none")
    /\ \A l \in Launches :
          (launch[l].setmode = "err")
              ~> \/ launch[l].emitted = "err"
                 \/ /\ launch[l].emitted = "ok"
                    /\ launch[l].pc = "done"
                    /\ item_count >= launch[l].c

\* a decompress launch of one item whose "set-mode" failed has delivered and
\* counted its item
C18_Witness ==
    \E l \in Launches :
        /\ intent = "decompress"
        /\ launch[l].setmode = "err"
        /\ launch[l].emitted = "ok"
        /\ launch[l].event = "archives-selected"
        /\ launch[l].pc = "done"
        /\ launch[l].c = 1
        /\ item_count >= 1

\* C19: compress and decompress emit the final snapshot, progress 100 and
\* current_file "Complete", exactly when they return success: it is emitted
\* in the step that returns Ok, no snapshot follows it, and it is emitted
\* once.  When the command returns an error the snapshots emitted so far
\* stay as they are and no "Complete" snapshot is emitted.
C19_CompleteIffSuccess ==
    /\ [](result = "ok" <=>
             /\ last_event.current_file = <<"Complete">>
             /\ last_event.progress = [num |-> 100, den |-> 1])
    /\ [][n_events' # n_events /\ last_event'.current_file = <<"Complete">> =>
             /\ result = "none"
             /\ result' = "ok"
             /\ n_events' = n_events + 1]_vars
    /\ [][result' # result =>
             /\ result = "none"
             /\ result' = "ok" => n_events' = n_events + 1
             /\ result' # "ok" => UNCHANGED <<last_event, n_events>>]_vars
    /\ [][result # "none" => UNCHANGED <<last_event, n_events, result>>]_vars

\* the collaborator of compress fails after two callbacks
C19_Witness ==
    /\ result = "Compression failed"
    /\ cjob.pc = "done"
    /\ n_events = 2
    /\ last_event.current_file = <<"entry">>

\* C20: between two consecutive polls of the watcher the task suspends: it
\* does not read the counters again before it has slept.
C20_SuspendsBetweenPolls ==
    [][watcher.pc = "poll" /\ watcher'.pc = "read_total" => ~watcher.polled]_vars

\* launches that have been announced and whose list has not been added to
\* item_count: the thread has not emitted yet, or its emission failed, or
\* its emission succeeded and its fetch_add has not run yet
Outstanding ==
    {l \in Launches : launch[l].pc # "idle"
                          /\ ~(launch[l].emitted = "ok" /\ launch[l].pc = "done")}

\* the total length of the item lists of a set of launches
RECURSIVE TotalLength(_)
TotalLength(S) ==
    IF S = {} THEN 0
    ELSE LET l == CHOOSE x \in S : TRUE
         IN  launch[l].c + TotalLength(S \ {l})

\* C21: in every state item_count <= arg_received, and the difference is the
\* total length of the item lists of the launches that have been announced
\* and not delivered, or not delivered successfully.
C21_DeliveredAtMostExpected ==
    /\ item_count <= arg_received
    /\ arg_received - item_count = TotalLength(Outstanding)

\* one launch delivered and counted, another one's emission failed: the
\* difference is the length of the failed one's list
C21_Witness ==
    /\ item_count >= 1
    /\ \E l \in Launches :
          /\ launch[l].emitted = "err"
          /\ launch[l].c >= 1
          /\ Outstanding = {l}
          /\ arg_received - item_count = launch[l].c

\* C22: the sources of one decompress batch are extracted into directories
\* that differ from one another, also when sources share a stem or a source
\* is listed twice: every directory the batch has extracted into exists when
\* the next one is resolved, and the one resolved did not exist then and is
\* none of them.
C22_DistinctOutputDirs ==
    /\ [](\A i, j \in 1..Len(job.decompressed_to) :
             i # j => job.decompressed_to[i] # job.decompressed_to[j])
    /\ [](job.pc = "extracting" =>
             \A i \in 1..Len(job.decompressed_to) :
                 job.decompressed_to[i] # job.output_dir)
    /\ [](result = "ok" => Len(job.decompressed_to) = job.total_files)
    /\ [][job.pc = "begin" /\ job'.pc = "extracting" =>
             /\ \A i \in 1..Len(job.decompressed_to) : job.decompressed_to[i] \in fs
             /\ job'.output_dir \notin fs]_vars

\* "a" listed twice and then "a (2)": the directories are "a", "a (2)" and
\* "a (2) (2)"
C22_Witness ==
    /\ result = "ok"
    /\ job.files = << <<"a">>, <<"a">>, <<"a", 2>> >>
    /\ job.decompressed_to = << <<"a">>, <<"a", 2>>, <<"a", 2, 2>> >>
====
